---- MODULE Spec2Model ----
(***************************************************************************)
(* KLT video stabiliser (src/KLT_stablize.py): the Tracker object and the  *)
(* frame loop of main().                                                   *)
(*                                                                         *)
(* Landmark coordinates are float32 in the code.  They are kept here in    *)
(* half-pixel units (the value 3 is the coordinate 1.5), so every position *)
(* the model uses is exactly representable and int() really truncates.     *)
(* Matrix entries are small integers, which float32 represents exactly;    *)
(* sums and products of them stay far below 2^24, so the float32 products  *)
(* of the code are the integer products computed here.                     *)
(***************************************************************************)
EXTENDS Integers, Sequences, FiniteSets, TLC

VARIABLES
    tracked_features,   \* Tracker.tracked_features: sequence of landmarks
    prev_gray,          \* Tracker.prev_gray: a gray raster or None
    fresh_start,        \* Tracker.fresh_start
    rigid_transform,    \* Tracker.rigid_transform: 3x3 matrix
    pc,                 \* position of main()
    frame,              \* main: the frame just read
    stabilized_frame,   \* main: stabilized_frame
    last_valid_frame,   \* main: last_valid_frame (a raster or None)
    frame_with_points,  \* main: frame_with_points
    out_with_points,    \* frames written to the "with points" writer
    out_without_points, \* frames written to the "without points" writer
    released,           \* cap and both writers released
    nread,              \* number of frames delivered by cap.read()
    video,              \* main: the kind of video behind video_path
    message,            \* main: what main printed on leaving: "", "error" or "saved"
    warped,             \* history: the output of cv2.warpAffine for this frame
    call,               \* history: the last process_image call: the landmarks on entry
                        \* (pre) and after detection (mid), whether the detector and the
                        \* tracking stage ran, the flow result and its number of valid
                        \* landmarks, whether the estimator ran and its result, the
                        \* cumulative transform on entry (cum0), the gray rasters now (gray) and
                        \* on entry (prev0), the detector's result (corners) and the
                        \* arrays of lines 34-36 (idx, old, new)
    incs,               \* history: estimates accumulated since the last (re)initialisation
    reset_at,           \* history: the number of the frame that last reset the tracker, or 0
    prev_frame          \* history: the frame read before the current one, or None

vars == <<tracked_features, prev_gray, fresh_start, rigid_transform, pc, frame,
          stabilized_frame, last_valid_frame, frame_with_points, out_with_points,
          out_without_points, released, nread, video, message, warped, call, incs,
          reset_at, prev_frame>>

trackerVars == <<tracked_features, prev_gray, fresh_start, rigid_transform>>
historyVars == <<warped, call, incs, reset_at, prev_frame>>

\* Python's None, where a raster, a matrix or a record is expected
None == <<>>

\* ---------------------------------------------------------------- bounds
MaxFrames == 3      \* frames the source delivers at most
Width == 2          \* raster width in pixels
Height == 1         \* raster height in pixels

\* ---------------------------------------------------------------- program constants
DetectFloor == 200  \* line 17: detection runs below this count
MaxCorners == 300   \* line 18: maxCorners of goodFeaturesToTrack

\* ---------------------------------------------------------------- matrices
Eye3 == <<<<1, 0, 0>>, <<0, 1, 0>>, <<0, 0, 1>>>>

MatMul(A, B) ==
    [i \in 1..3 |-> [j \in 1..3 |->
        A[i][1] * B[1][j] + A[i][2] * B[2][j] + A[i][3] * B[3][j]]]

\* variant: the 3x3 matrix starts from zeros instead of the identity
Embed_zeros(t) == [i \in 1..3 |-> IF i <= 2 THEN t[i] ELSE <<0, 0, 0>>]

\* transform_3x3 = np.eye(3); transform_3x3[:2] = transform_matrix
Embed(t) == [i \in 1..3 |-> IF i <= 2 THEN t[i] ELSE Eye3[i]]

\* variant: the increment is added, not multiplied
Accumulate_sum(cum, inc) == [i \in 1..3 |-> [j \in 1..3 |-> cum[i][j] + inc[i][j]]]

\* variant: the increment is multiplied on the left
Accumulate_left(cum, inc) == MatMul(inc, cum)

\* self.rigid_transform @ transform_3x3
Accumulate(cum, inc) == MatMul(cum, inc)

\* variant: the estimate of this frame is not accumulated
AfterEstimate_skip(cum, est) == cum

\* variant: a missing estimate restarts the cumulative transform
AfterEstimate_restart(cum, est) ==
    IF est # None THEN Accumulate(cum, Embed(est)) ELSE Eye3

\* lines 49-52: a missing estimate leaves the cumulative transform alone
AfterEstimate(cum, est) ==
    IF est # None THEN Accumulate(cum, Embed(est)) ELSE cum

\* signed cofactor of entry (i, j), by cyclic indices
Cof(M, i, j) ==
    LET i1 == (i % 3) + 1
        i2 == ((i + 1) % 3) + 1
        j1 == (j % 3) + 1
        j2 == ((j + 1) % 3) + 1
    IN  M[i1][j1] * M[i2][j2] - M[i1][j2] * M[i2][j1]

Det3(M) == M[1][1] * Cof(M, 1, 1) + M[1][2] * Cof(M, 1, 2) + M[1][3] * Cof(M, 1, 3)

\* np.linalg.inv raises LinAlgError on a singular matrix
Singular(M) == Det3(M) = 0

\* np.linalg.inv for the matrices of the model, whose determinant is 1 or -1:
\* adj(M) / det = adj(M) * det
Inv3(M) == [i \in 1..3 |-> [j \in 1..3 |-> Cof(M, j, i) * Det3(M)]]

\* ---------------------------------------------------------------- rasters
Pix == (0..(Width - 1)) \X (0..(Height - 1))

Black == <<0, 0, 0>>
White == <<255, 255, 255>>
Blue == <<255, 0, 0>>
Red == <<0, 0, 255>>

\* The videos main() is run on.  The inputs are explored in two families, so
\* that their combinations stay checkable: a "sparse" video varies its pixels,
\* yields few corners and every kind of estimate; a "busy" video is uniformly
\* white, yields corner counts around the detection floor and the detector's
\* maximum, and its estimates are translations; a "dim" video is white too and
\* yields one corner per detection or none, so that the Landmark Set stays
\* as small as one to three landmarks.
Videos == {"sparse", "busy", "dim"}

\* the frames cap.read() may deliver
FrameSet(v) ==
    IF v = "sparse"
    THEN { [p \in Pix |-> White],
           [p \in Pix |-> IF p[1] = 0 THEN Blue ELSE Black] }
    ELSE { [p \in Pix |-> White] }

\* cv2.cvtColor(img, COLOR_BGR2GRAY) on 8-bit pixels: the fixed-point
\* weights of OpenCV, (B*1868 + G*9617 + R*4899 + 8192) >> 14
CvtGray(img) ==
    [p \in Pix |-> (img[p][1] * 1868 + img[p][2] * 9617 + img[p][3] * 4899 + 8192) \div 16384]

\* cv2.warpAffine(frame, M[:2], ...) without WARP_INVERSE_MAP: OpenCV inverts
\* the matrix it is given and samples dst(x, y) = src(inverse(M) * (x, y, 1));
\* samples outside the source are the border value (0, 0, 0).
WarpAffine(img, M) ==
    LET S == Inv3(Embed(<<M[1], M[2]>>))
    IN  [p \in Pix |->
            LET sx == S[1][1] * p[1] + S[1][2] * p[2] + S[1][3]
                sy == S[2][1] * p[1] + S[2][2] * p[2] + S[2][3]
            IN  IF <<sx, sy>> \in Pix THEN img[<<sx, sy>>] ELSE Black]

\* variant: holes are left as they are
HoleFill_skip(stab, last) == stab

\* variant: a pixel counts as a hole as soon as one channel is zero
HoleFill_any(stab, last) ==
    IF last # None
    THEN [p \in Pix |->
            IF \E c \in 1..3 : stab[p][c] = 0 THEN last[p] ELSE stab[p]]
    ELSE stab

\* lines 106-108: mask = (stabilized_frame == 0).all(axis=2);
\* stabilized_frame[mask] = last_valid_frame[mask]
HoleFill(stab, last) ==
    IF last # None
    THEN [p \in Pix |-> IF stab[p] = Black THEN last[p] ELSE stab[p]]
    ELSE stab

\* int(c) of a coordinate held in half-pixel units: truncation toward zero
ToInt(c) == IF c >= 0 THEN c \div 2 ELSE -((-c) \div 2)

Abs(n) == IF n >= 0 THEN n ELSE -n

\* cv2.circle(img, centre, 2, colour, -1): the filled disc of radius 2
InDisc(p, c) ==
    LET dx == Abs(p[1] - c[1])
        dy == Abs(p[2] - c[2])
    IN  \/ dy <= 1 /\ dx <= 2
        \/ dy = 2 /\ dx <= 1

DrawCircles(img, pts) ==
    [p \in Pix |->
        IF \E k \in 1..Len(pts) : InDisc(p, <<ToInt(pts[k][1]), ToInt(pts[k][2])>>)
        THEN Red ELSE img[p]]

\* variant: frame_with_points is stabilized_frame itself, not a copy
Overlay_inplace(stab, pts) ==
    [points |-> DrawCircles(stab, pts), stab |-> DrawCircles(stab, pts)]

\* lines 113-115: the two rasters after the markers are drawn; the markers go
\* on a copy of stabilized_frame
Overlay(stab, pts) == [points |-> DrawCircles(stab, pts), stab |-> stab]


\* ---------------------------------------------------------------- library outcomes
\* corner i of a detection, in half-pixel units: whole-pixel positions, all distinct
Corners(n) == [i \in 1..n |-> <<2 * (i - 1), 0>>]

\* cv2.goodFeaturesToTrack(gray, maxCorners=300, ...): None (isNone), or an
\* array of at most maxCorners corners
DetectOutcomes(v) ==
    IF v = "sparse"
    THEN { [isNone |-> FALSE, pts |-> Corners(5)] }
    ELSE IF v = "dim"
    THEN { [isNone |-> TRUE, pts |-> <<>>], [isNone |-> FALSE, pts |-> Corners(1)] }
    ELSE {[isNone |-> TRUE, pts |-> <<>>]} \cup
         { [isNone |-> FALSE, pts |-> Corners(n)]
           : n \in {DetectFloor - 1, DetectFloor, MaxCorners} }

\* smallest v with v >= 0.8 * K, and largest v with v <= 0.8 * K
Ceil80(K) == (4 * K + 4) \div 5
Floor80(K) == (4 * K) \div 5

\* a status array of length K with exactly v ones, v >= Ceil80(K) - 1: every
\* fifth landmark is invalid until K - v are, and when one more has to go it is
\* the first
StatusWith(K, v) ==
    [i \in 1..K |->
        IF \/ i % 5 = 0 /\ i \div 5 <= K - v
           \/ i = 1 /\ K - v > K \div 5
        THEN 0 ELSE 1]

\* cv2.calcOpticalFlowPyrLK(prev_gray, gray, points, None): a new position and
\* a status flag per landmark.  Either every landmark is found where it was,
\* or v of them are valid and moved by half a pixel while an invalid one keeps
\* its position, for v around the 80 % line.
FlowOutcomes(v, feats) ==
    LET K == Len(feats)
    IN  { [status |-> [i \in 1..K |-> 1], new_features |-> feats] } \cup
        { [ status |-> StatusWith(K, n),
            new_features |-> [i \in 1..K |->
                                IF StatusWith(K, n)[i] = 1
                                THEN <<feats[i][1] + 1, feats[i][2]>>
                                ELSE feats[i]] ]
          : n \in IF v = "sparse" THEN {Ceil80(K), Ceil80(K) - 1}
                  ELSE {Ceil80(K), Ceil80(K) - 1, Floor80(K)} }

\* cv2.estimateAffinePartial2D(old, new, method=RANSAC): None, or a 2x3 matrix
\* [[a, -b, tx], [b, a, ty]]: no motion, a one-pixel translation, a quarter turn, or the
\* zero-scale fit of correspondences that all end in one point
EstimateOutcomes(v) ==
    IF v = "sparse"
    THEN { None,
           <<<<1, 0, 0>>, <<0, 1, 0>>>>,
           <<<<1, 0, 1>>, <<0, 1, 0>>>>,
           <<<<0, -1, 0>>, <<1, 0, 0>>>>,
           <<<<0, 0, 1>>, <<0, 0, 0>>>> }
    ELSE { None,
           <<<<1, 0, 1>>, <<0, 1, 0>>>> }

\* ---------------------------------------------------------------- Tracker
\* variants: detection also at the floor itself; detection on every frame
NeedDetect_atFloor(n) == n <= DetectFloor
NeedDetect_always(n) == TRUE

\* line 17: detect new features if less than 200 are being tracked
NeedDetect(n) == n < DetectFloor

\* variant: no share of tracked landmarks counts as too few
TooFewTracked_never(v, K) == FALSE

\* variant: a tracked share of exactly 80 % counts as too few
TooFewTracked_orEqual(v, K) == 5 * v <= 4 * K

\* line 39: len(new_features) < 0.8 * len(self.tracked_features).  The double
\* nearest to 0.8 exceeds 0.8 by the factor 1 + 2^-54, so the rounded product
\* 0.8 * K is the integer 4K/5 when 5 divides K and is at least 0.2 away from
\* every integer otherwise: the comparison is the exact one, 5 v < 4 K.
TooFewTracked(v, K) == 5 * v < 4 * K

\* np.where(status.flatten() == 1)[0]
ValidIndices(status) == SelectSeq([i \in 1..Len(status) |-> i], LAMBDA i : status[i] = 1)

\* variant: the first entries are taken, whatever the indices
Take_head(arr, idx) == [k \in 1..Len(idx) |-> arr[k]]

\* arr[valid_indices]
Take(arr, idx) == [k \in 1..Len(idx) |-> arr[idx[k]]]

\* variant: the reset does not clear the landmarks
ResetTracker_keepsLandmarks(t) ==
    [ rigid_transform |-> Eye3,
      tracked_features |-> t.tracked_features,
      prev_gray |-> None,
      fresh_start |-> TRUE ]

\* variant: the reset keeps the previous raster
ResetTracker_keepsRaster(t) ==
    [ rigid_transform |-> Eye3,
      tracked_features |-> <<>>,
      prev_gray |-> t.prev_gray,
      fresh_start |-> TRUE ]

\* lines 41-44: the fields of the Tracker after a catastrophic error
ResetTracker(t) ==
    [ rigid_transform |-> Eye3,
      tracked_features |-> <<>>,
      prev_gray |-> None,
      fresh_start |-> TRUE ]

\* variant: the corners replace the list instead of extending it
Extend_replace(feats, corners) == corners

\* line 22: self.tracked_features.extend(corners)
Extend(feats, corners) == feats \o corners

\* variant: tracking runs on an empty landmark list too
CanTrack_emptyToo(prev, feats) == prev # None

\* line 25: self.prev_gray is not None and self.tracked_features
CanTrack(prev, feats) == prev # None /\ feats # <<>>

\* variant: the count compared with is the one held before detection
ResetDue_heldOnly(valid, held, detected) == TooFewTracked(valid, held)

\* line 39, where self.tracked_features is the list lines 17-22 may have
\* extended: the landmarks held on entry plus the corners just detected
ResetDue(valid, held, detected) == TooFewTracked(valid, held + detected)

\* variant: the previous raster, once set, is kept
UpdatePrev_keepOld(prev, gray) == IF prev = None THEN gray ELSE prev

\* variant: the previous raster is only replaced once there is one
UpdatePrev_onlyIfSet(prev, gray) == IF prev # None THEN gray ELSE prev

\* line 58: self.prev_gray = gray
UpdatePrev(prev, gray) == gray

\* history of a process_image call, before the first call
NoCall ==
    [ ran |-> FALSE, pre |-> <<>>, detected |-> FALSE, mid |-> <<>>, tracked |-> FALSE,
      flow |-> None, valid |-> 0, estimated |-> FALSE, est |-> None, cum0 |-> Eye3,
      gray |-> None, prev0 |-> None, corners |-> [isNone |-> TRUE, pts |-> <<>>],
      idx |-> <<>>, old |-> <<>>, new |-> <<>> ]

Init ==
    /\ tracked_features = <<>>
    /\ prev_gray = None
    /\ fresh_start = TRUE
    /\ rigid_transform = Eye3
    /\ pc = "open"
    /\ frame = None
    /\ stabilized_frame = None
    /\ last_valid_frame = None
    /\ frame_with_points = None
    /\ out_with_points = <<>>
    /\ out_without_points = <<>>
    /\ released = FALSE
    /\ nread = 0
    /\ video \in Videos
    /\ message = ""
    /\ warped = None
    /\ call = NoCall
    /\ incs = <<>>
    /\ reset_at = 0
    /\ prev_frame = None

\* Tracker.process_image(img), lines 12-58
ProcessImage ==
    /\ pc = "process"
    /\ \E gray \in {CvtGray(frame)},
          corners \in (IF NeedDetect(Len(tracked_features))
                       THEN DetectOutcomes(video)
                       ELSE {[isNone |-> TRUE, pts |-> <<>>]}) :
       \E mid \in {IF corners.isNone THEN tracked_features
                   ELSE Extend(tracked_features, corners.pts)} :
       \E entry \in {[ ran |-> TRUE, pre |-> tracked_features,
                       detected |-> NeedDetect(Len(tracked_features)),
                       corners |-> corners, mid |-> mid,
                       cum0 |-> rigid_transform, prev0 |-> prev_gray, gray |-> gray ]} :
       \/ \* line 25 false: no tracking on this frame
          /\ ~CanTrack(prev_gray, mid)
          /\ tracked_features' = mid
          /\ prev_gray' = UpdatePrev(prev_gray, gray)
          /\ UNCHANGED <<rigid_transform, fresh_start, incs, reset_at>>
          /\ call' = entry @@ [ tracked |-> FALSE, flow |-> None, valid |-> 0,
                                idx |-> <<>>, old |-> <<>>, new |-> <<>>,
                                estimated |-> FALSE, est |-> None ]
       \/ \* lines 26-55
          /\ CanTrack(prev_gray, mid)
          /\ \E flow \in FlowOutcomes(video, mid) :
             \E valid_indices \in {ValidIndices(flow.status)} :
             \E new_features \in {Take(flow.new_features, valid_indices)},
                old_features \in {Take(mid, valid_indices)} :
                IF ResetDue(Len(new_features), Len(tracked_features),
                            Len(mid) - Len(tracked_features))
                THEN \E after \in {ResetTracker([rigid_transform |-> rigid_transform,
                                                 tracked_features |-> mid,
                                                 prev_gray |-> prev_gray,
                                                 fresh_start |-> fresh_start])} :
                     /\ rigid_transform' = after.rigid_transform
                     /\ tracked_features' = after.tracked_features
                     /\ prev_gray' = after.prev_gray
                     /\ fresh_start' = after.fresh_start
                     /\ incs' = <<>>
                     /\ reset_at' = nread
                     /\ call' = entry @@ [ tracked |-> TRUE, flow |-> flow,
                                           valid |-> Len(new_features),
                                           idx |-> valid_indices, old |-> <<>>,
                                           new |-> <<>>,
                                           estimated |-> FALSE, est |-> None ]
                ELSE \E est \in EstimateOutcomes(video) :
                     /\ rigid_transform' = AfterEstimate(rigid_transform, est)
                     /\ tracked_features' = new_features
                     /\ prev_gray' = UpdatePrev(prev_gray, gray)
                     /\ UNCHANGED <<fresh_start, reset_at>>
                     /\ incs' = IF est # None THEN Append(incs, est) ELSE incs
                     /\ call' = entry @@ [ tracked |-> TRUE, flow |-> flow,
                                           valid |-> Len(new_features),
                                           idx |-> valid_indices, old |-> old_features,
                                           new |-> new_features,
                                           estimated |-> TRUE, est |-> est ]
    /\ pc' = "invert"
    /\ UNCHANGED <<frame, stabilized_frame, last_valid_frame, frame_with_points,
                   out_with_points, out_without_points, released, nread, video,
                   message, warped, prev_frame>>

\* ---------------------------------------------------------------- main
\* lines 68-84: the source opens (and the writers and the Tracker are made), or
\* main prints "Error: Cannot open video file" and returns
Open ==
    /\ pc = "open"
    /\ \E isOpened \in BOOLEAN :
          /\ pc' = IF isOpened THEN "read" ELSE "done"
          /\ message' = IF isOpened THEN message ELSE "error"
    /\ UNCHANGED <<trackerVars, frame, stabilized_frame, last_valid_frame,
                   frame_with_points, out_with_points, out_without_points, released,
                   nread, video, historyVars>>

\* lines 87-91: ret, frame = cap.read(); the stream ends after MaxFrames frames
\* at the latest
Read ==
    /\ pc = "read"
    /\ \/ /\ pc' = "release"
          /\ UNCHANGED <<frame, nread, prev_frame>>
       \/ /\ nread < MaxFrames
          /\ \E f \in FrameSet(video) : frame' = f
          /\ prev_frame' = frame
          /\ nread' = nread + 1
          /\ pc' = "process"
    /\ UNCHANGED <<trackerVars, stabilized_frame, last_valid_frame, frame_with_points,
                   out_with_points, out_without_points, released, video, message,
                   warped, call, incs, reset_at>>

\* line 95 on a singular matrix: np.linalg.inv raises LinAlgError, which nothing
\* catches; main ends there
InvertFail ==
    /\ pc = "invert"
    /\ Singular(rigid_transform)
    /\ pc' = "crashed"
    /\ UNCHANGED <<trackerVars, frame, stabilized_frame, last_valid_frame,
                   frame_with_points, out_with_points, out_without_points, released,
                   nread, video, message, historyVars>>

\* lines 95-103: inv_transform = np.linalg.inv(...); cv2.warpAffine(frame, inv_transform[:2], ...)
Warp ==
    /\ pc = "invert"
    /\ ~Singular(rigid_transform)
    /\ LET inv_transform == Inv3(rigid_transform)
       IN  stabilized_frame' = WarpAffine(frame, <<inv_transform[1], inv_transform[2]>>)
    /\ warped' = stabilized_frame'
    /\ pc' = "fill"
    /\ UNCHANGED <<trackerVars, frame, last_valid_frame, frame_with_points,
                   out_with_points, out_without_points, released, nread, video, message, call, incs,
                   reset_at, prev_frame>>

\* lines 106-108
Fill ==
    /\ pc = "fill"
    /\ stabilized_frame' = HoleFill(stabilized_frame, last_valid_frame)
    /\ pc' = "store"
    /\ UNCHANGED <<trackerVars, frame, last_valid_frame, frame_with_points,
                   out_with_points, out_without_points, released, nread, video, message, historyVars>>

\* variant: only the first stabilised frame is retained
Retain_first(last, stab) == IF last = None THEN stab ELSE last

\* line 110: the raster retained for hole-fill is a copy of stabilized_frame
Retain(last, stab) == stab

\* line 110: last_valid_frame = stabilized_frame.copy()
StoreLast ==
    /\ pc = "store"
    /\ last_valid_frame' = Retain(last_valid_frame, stabilized_frame)
    /\ pc' = "draw"
    /\ UNCHANGED <<trackerVars, frame, stabilized_frame, frame_with_points,
                   out_with_points, out_without_points, released, nread, video, message, historyVars>>

\* lines 113-115
Draw ==
    /\ pc = "draw"
    /\ LET o == Overlay(stabilized_frame, tracked_features)
       IN  /\ frame_with_points' = o.points
           /\ stabilized_frame' = o.stab
    /\ pc' = "write_with"
    /\ UNCHANGED <<trackerVars, frame, last_valid_frame, out_with_points,
                   out_without_points, released, nread, video, message, historyVars>>

\* line 121
WriteWithPoints ==
    /\ pc = "write_with"
    /\ out_with_points' = Append(out_with_points, frame_with_points)
    /\ pc' = "write_without"
    /\ UNCHANGED <<trackerVars, frame, stabilized_frame, last_valid_frame,
                   frame_with_points, out_without_points, released, nread, video, message, historyVars>>

\* line 122
WriteWithoutPoints ==
    /\ pc = "write_without"
    /\ out_without_points' = Append(out_without_points, stabilized_frame)
    /\ pc' = "key"
    /\ UNCHANGED <<trackerVars, frame, stabilized_frame, last_valid_frame,
                   frame_with_points, out_with_points, released, nread, video, message, historyVars>>

\* lines 125-127: key = cv2.waitKey(30) & 0xFF; ESC leaves the loop
WaitKey ==
    /\ pc = "key"
    /\ \E esc \in BOOLEAN : pc' = IF esc THEN "release" ELSE "read"
    /\ UNCHANGED <<trackerVars, frame, stabilized_frame, last_valid_frame,
                   frame_with_points, out_with_points, out_without_points, released,
                   nread, video, message, historyVars>>

\* lines 129-133: everything is released and main prints "Videos saved as"
Release ==
    /\ pc = "release"
    /\ released' = TRUE
    /\ message' = "saved"
    /\ pc' = "done"
    /\ UNCHANGED <<trackerVars, frame, stabilized_frame, last_valid_frame,
                   frame_with_points, out_with_points, out_without_points, nread,
                   video, historyVars>>

Next ==
    \/ Open
    \/ Read
    \/ ProcessImage
    \/ InvertFail
    \/ Warp
    \/ Fill
    \/ StoreLast
    \/ Draw
    \/ WriteWithPoints
    \/ WriteWithoutPoints
    \/ WaitKey
    \/ Release

Spec == Init /\ [][Next]_vars

\* ---------------------------------------------------------------- properties
\* The tracker's fields change only in ProcessImage, and call describes the
\* last call, so a statement about "the state after the call" is stated of
\* every state up to the next call.

\* pre-tracking landmark count of the last call
PreCount == Len(call.mid)

\* the last call ran the tracking stage and kept the tracker: the previous
\* raster is this frame's, the landmarks are as many as were valid, and the
\* cumulative transform is the one on entry, times the estimate if there was one
KeptTracking ==
    /\ prev_gray = call.gray
    /\ prev_gray # None
    /\ Len(tracked_features) = call.valid
    /\ rigid_transform =
          IF call.est = None THEN call.cum0
          ELSE MatMul(call.cum0, <<call.est[1], call.est[2], <<0, 0, 1>>>>)

\* the Motion State of a new Tracker
InitialMotionState ==
    /\ tracked_features = <<>>
    /\ rigid_transform = Eye3
    /\ prev_gray = None
    /\ fresh_start = TRUE

\* C1: when the tracking stage runs on K landmarks and fewer than 80 % of them
\* are valid (ceil(0.8 K) - 1 in particular), the Motion State after the call
\* is the initial one and nothing was estimated or accumulated.
C1_ResetBelow80 ==
    (call.tracked /\ 5 * call.valid < 4 * PreCount)
        => /\ InitialMotionState
           /\ ~call.estimated
           /\ incs = <<>>

\* a call with exactly ceil(0.8 K) - 1 valid landmarks that threw away
\* accumulated motion
C1_Witness ==
    /\ call.tracked
    /\ PreCount >= 5
    /\ call.valid = Ceil80(PreCount) - 1
    /\ call.cum0 # Eye3
    /\ InitialMotionState

\* C2 as stated: exactly floor(0.8 K) valid landmarks never reset the tracker.
C2_FloorKeeps ==
    (call.tracked /\ PreCount >= 1 /\ call.valid = Floor80(PreCount)) => KeptTracking

\* C2, amended: at least 0.8 K valid landmarks (ceil(0.8 K) in particular,
\* which is floor(0.8 K) when 5 divides K) never reset the tracker.
C2_AtLeast80Keeps ==
    (call.tracked /\ PreCount >= 1 /\ 5 * call.valid >= 4 * PreCount) => KeptTracking

\* a call with exactly 0.8 K valid landmarks, some invalid, that kept the tracker
C2_Witness ==
    /\ call.tracked
    /\ PreCount % 5 = 0
    /\ call.valid = Floor80(PreCount)
    /\ call.valid = Ceil80(PreCount)
    /\ call.valid < PreCount
    /\ KeptTracking

\* C3: a singular cumulative transform does not end the run: main never stops
\* on the inversion's error with frames unread and the writers not released.
C3_SingularDoesNotAbort == pc # "crashed"

\* C4: the detector runs exactly when fewer than 200 landmarks are held on
\* entry; with 200 or more the detection step leaves the set as it was.
C4_DetectBelowFloor ==
    call.ran =>
        /\ call.detected <=> Len(call.pre) < 200
        /\ Len(call.pre) >= 200 => call.mid = call.pre

\* a call entered with exactly 200 landmarks, which were then tracked untouched
C4_Witness ==
    /\ call.ran
    /\ Len(call.pre) = 200
    /\ ~call.detected
    /\ call.mid = call.pre
    /\ call.tracked

\* C5: tracking without reset and without an estimate leaves the cumulative
\* transform as it was, replaces the landmarks by tracked positions and makes
\* the current frame the previous raster.
C5_NoEstimateIsSoft ==
    (call.tracked /\ 5 * call.valid >= 4 * PreCount /\ call.est = None)
        => /\ rigid_transform = call.cum0
           /\ prev_gray = call.gray
           /\ prev_gray # None
           /\ Len(tracked_features) = call.valid
           /\ LET moved == { call.flow.new_features[i] :
                              i \in {j \in 1..PreCount : call.flow.status[j] = 1} }
              IN  \A k \in 1..Len(tracked_features) : tracked_features[k] \in moved

\* a call without an estimate that carried accumulated motion and moved landmarks
C5_Witness ==
    /\ call.tracked
    /\ call.estimated
    /\ call.est = None
    /\ call.cum0 # Eye3
    /\ rigid_transform = call.cum0
    /\ tracked_features # call.mid

\* an estimate as a 3x3 matrix with bottom row [0, 0, 1]
Hom(t) == <<t[1], t[2], <<0, 0, 1>>>>

\* cumulative0 * T1 * ... * Tn, from the left
RECURSIVE ProductFrom(_, _)
ProductFrom(cum, ts) ==
    IF ts = <<>> THEN cum
    ELSE ProductFrom(MatMul(cum, Hom(Head(ts))), Tail(ts))

\* C6: the cumulative transform is the identity it started from multiplied on
\* the right by every estimate since, in order: cumulative0 * T1 * T2 * ...
C6_RightMultiplied == rigid_transform = ProductFrom(Eye3, incs)

\* two estimates accumulated whose product depends on the order
C6_Witness ==
    /\ Len(incs) = 2
    /\ MatMul(Hom(incs[1]), Hom(incs[2])) # MatMul(Hom(incs[2]), Hom(incs[1]))
    /\ rigid_transform = MatMul(Hom(incs[1]), Hom(incs[2]))

\* C7: after hole-fill every sentinel pixel of the warped frame holds the pixel
\* of the previous stabilised output, every other pixel its warped value; with
\* no previous output the warped frame is unchanged.
C7_HoleFill ==
    pc = "store" =>
        \A p \in Pix :
            stabilized_frame[p] =
                IF last_valid_frame # None /\ warped[p] = <<0, 0, 0>>
                THEN last_valid_frame[p]
                ELSE warped[p]

\* a filled frame with one hole taken from the previous output and one pixel kept
C7_Witness ==
    /\ pc = "store"
    /\ last_valid_frame # None
    /\ \E p \in Pix : warped[p] = <<0, 0, 0>> /\ stabilized_frame[p] # <<0, 0, 0>>
    /\ \E p \in Pix : warped[p] # <<0, 0, 0>> /\ stabilized_frame[p] # last_valid_frame[p]

\* C8: drawing the markers leaves the stabilised frame alone: from the drawing
\* to the next frame it equals the raster retained for hole-fill, and so does
\* the raster written to the "without points" stream.
C8_MarkersOnCopy ==
    /\ pc \in {"write_with", "write_without", "key"} => stabilized_frame = last_valid_frame
    /\ pc = "key" => out_without_points[Len(out_without_points)] = last_valid_frame

\* a frame written whose marked copy differs from the stabilised frame
C8_Witness ==
    /\ pc = "key"
    /\ tracked_features # <<>>
    /\ frame_with_points # stabilized_frame
    /\ out_with_points[Len(out_with_points)] = frame_with_points
    /\ out_without_points[Len(out_without_points)] = stabilized_frame

\* C9: the Landmark Set never holds more than 199 + 300 = 499 landmarks.
C9_SizeCeiling ==
    /\ Len(tracked_features) <= (DetectFloor - 1) + MaxCorners
    /\ Len(call.mid) <= (DetectFloor - 1) + MaxCorners

\* the ceiling is reached and survives tracking
C9_Witness ==
    /\ call.tracked
    /\ Len(tracked_features) = 499

\* C10: the cumulative transform is always a 3x3 matrix with bottom row [0, 0, 1].
C10_HomogeneousRow ==
    /\ Len(rigid_transform) = 3
    /\ \A i \in 1..3 : Len(rigid_transform[i]) = 3
    /\ rigid_transform[3] = <<0, 0, 1>>

\* two estimates accumulated into a transform that is not the identity
C10_Witness ==
    /\ Len(incs) = 2
    /\ rigid_transform # Eye3

\* call describes the frame numbered nread once process_image has returned
CallIsOfThisFrame == call.ran /\ pc # "process"

\* C11: with no previous raster, or no landmark after detection, the tracking
\* stage is skipped: the landmarks stay as detection left them, nothing is
\* estimated, the cumulative transform is unchanged and the current gray
\* raster becomes the previous one.
C11_SkipTracking ==
    (call.ran /\ (call.prev0 = None \/ call.mid = <<>>))
        => /\ ~call.tracked
           /\ ~call.estimated
           /\ tracked_features = call.mid
           /\ rigid_transform = call.cum0
           /\ prev_gray = call.gray
           /\ prev_gray # None

\* the frame after a reset: landmarks are detected and kept, nothing is tracked
C11_Witness ==
    /\ CallIsOfThisFrame
    /\ reset_at >= 2
    /\ nread = reset_at + 1
    /\ call.prev0 = None
    /\ call.mid # <<>>
    /\ tracked_features = call.mid
    /\ rigid_transform = Eye3

\* C12: after tracking without reset the landmarks are the new positions of
\* exactly the valid landmarks, in their order, and the old and new arrays
\* given to the estimator are aligned: entry k of both belongs to the k-th
\* valid landmark.
C12_ValidOnly ==
    call.estimated =>
        LET n == Len(call.idx)
        IN  /\ n = Cardinality({i \in 1..PreCount : call.flow.status[i] = 1})
            /\ Len(tracked_features) = n
            /\ Len(call.old) = n
            /\ Len(call.new) = n
            /\ \A k \in 1..n :
                  /\ call.idx[k] \in 1..PreCount
                  /\ call.flow.status[call.idx[k]] = 1
                  /\ k < n => call.idx[k] < call.idx[k + 1]
                  /\ tracked_features[k] = call.flow.new_features[call.idx[k]]
                  /\ call.new[k] = call.flow.new_features[call.idx[k]]
                  /\ call.old[k] = call.mid[call.idx[k]]

\* the fifth landmark was invalid: the sixth has moved and taken its place
C12_Witness ==
    /\ call.estimated
    /\ PreCount >= 10
    /\ call.flow.status[5] = 0
    /\ tracked_features[5] = call.flow.new_features[6]
    /\ tracked_features[5] # call.mid[6]
    /\ call.old[5] = call.mid[6]

\* C13: fresh_start is true after creation and after a reset, and false once
\* a frame has been processed without reset.  (After a call the previous
\* raster is absent exactly when that call reset the tracker.)
C13_FreshStartTracksReset ==
    /\ ~call.ran => fresh_start
    /\ call.ran => (fresh_start <=> prev_gray = None)

C15_OnePairPerFrame ==
    /\ pc \in {"read", "release", "done", "crashed"}
          => /\ Len(out_with_points) = nread
             /\ Len(out_without_points) = nread
    /\ pc # "write_without" => Len(out_with_points) = Len(out_without_points)

\* C16: a run that got no frame ends with the error message, and no run that
\* got a frame ends in an error.
C16_AbsentInputIsError ==
    /\ (pc = "done" /\ nread = 0) => message = "error"
    /\ nread > 0 => (message # "error" /\ pc # "crashed")

\* C17: after the detection step the landmarks held before are a prefix of
\* the set, followed by the corners the detector returned; without corners the
\* set is unchanged; and a call that does nothing but detect leaves the
\* cumulative transform alone.
C17_DetectionAppends ==
    call.ran =>
        /\ Len(call.mid) = Len(call.pre) + Len(call.corners.pts)
        /\ SubSeq(call.mid, 1, Len(call.pre)) = call.pre
        /\ SubSeq(call.mid, Len(call.pre) + 1, Len(call.mid)) = call.corners.pts
        /\ (call.corners.isNone \/ call.corners.pts = <<>>) => call.mid = call.pre
        /\ ~call.tracked => (tracked_features = call.mid /\ rigid_transform = call.cum0)

\* corners were appended to landmarks already held
C17_Witness ==
    /\ call.ran
    /\ call.detected
    /\ call.pre # <<>>
    /\ call.corners.pts # <<>>
    /\ Len(call.mid) > Len(call.pre)
    /\ call.mid[1] = call.pre[1]

\* C18: after every completed iteration the retained raster is the stabilised
\* frame just written; so hole-fill of a frame reads the output of the frame
\* before it, and nothing on the first frame.
C18_RetainedIsLastOutput ==
    /\ (pc \in {"key", "read", "release", "done"} /\ nread >= 1)
          => /\ Len(out_without_points) = nread
             /\ last_valid_frame = out_without_points[nread]
    /\ (pc = "fill" /\ nread >= 2) => last_valid_frame = out_without_points[nread - 1]
    /\ (pc = "fill" /\ nread = 1) => last_valid_frame = None

\* a frame that reset the tracker has replaced the retained raster by its own output
C18_Witness ==
    /\ pc = "read"
    /\ nread >= 2
    /\ reset_at = nread
    /\ last_valid_frame = out_without_points[nread]
    /\ last_valid_frame # out_without_points[nread - 1]

\* C19: the second of two equal frames, with every landmark found where it
\* was and the identity or no estimate, leaves the cumulative transform the
\* identity and does not reset.
C19_StaticFrameTwice ==
    ( /\ CallIsOfThisFrame
      /\ nread = 2
      /\ call.tracked
      /\ call.prev0 = call.gray
      /\ \A i \in 1..PreCount : call.flow.status[i] = 1
      /\ call.flow.new_features = call.mid
      /\ call.est \in {None, <<<<1, 0, 0>>, <<0, 1, 0>>>>} )
        => /\ rigid_transform = Eye3
           /\ prev_gray = call.gray
           /\ prev_gray # None
           /\ tracked_features = call.mid

\* the second equal frame, tracked in place, with the identity estimated
C19_Witness ==
    /\ CallIsOfThisFrame
    /\ nread = 2
    /\ call.estimated
    /\ call.prev0 = call.gray
    /\ call.flow.new_features = call.mid
    /\ call.valid = PreCount
    /\ call.est = <<<<1, 0, 0>>, <<0, 1, 0>>>>
    /\ rigid_transform = Eye3

\* C20: the corners detected in a call are tracked in that call, and the reset
\* is decided against the landmarks held plus those corners.
C20_CountAfterTopUp ==
    call.tracked =>
        /\ Len(call.flow.status) = Len(call.pre) + Len(call.corners.pts)
        /\ prev_gray = None
              <=> 5 * call.valid < 4 * (Len(call.pre) + Len(call.corners.pts))

\* a reset although at least 80 % of the landmarks held on entry were valid
C20_Witness ==
    /\ call.tracked
    /\ call.pre # <<>>
    /\ call.corners.pts # <<>>
    /\ 5 * call.valid >= 4 * Len(call.pre)
    /\ prev_gray = None

\* the states of main() between the warp of a frame and the next read
AfterWarp == {"fill", "store", "draw", "write_with", "write_without", "key"}

\* the last call ran the tracking stage and found fewer than 80 % valid
FrameReset == call.tracked /\ 5 * call.valid < 4 * PreCount

\* the cumulative transform frame N must be composited with: the identity if
\* frame N reset, else the transform on entry times frame N's estimate
TransformOfThisFrame ==
    IF FrameReset THEN Eye3
    ELSE IF call.est # None THEN MatMul(call.cum0, Hom(call.est))
    ELSE call.cum0

\* img sampled through the 3x3 matrix T: pixel p shows img at T * (p, 1), or
\* black when that lies outside the raster
SampledThrough(img, T) ==
    [p \in Pix |->
        LET sx == T[1][1] * p[1] + T[1][2] * p[2] + T[1][3]
            sy == T[2][1] * p[1] + T[2][2] * p[2] + T[2][3]
        IN  IF <<sx, sy>> \in Pix THEN img[<<sx, sy>>] ELSE Black]

\* C21: the compositor of frame N works on the cumulative transform after
\* frame N's estimation and accumulation (the identity if frame N reset): that
\* is the matrix held when np.linalg.inv is reached, and warping by its
\* inverse shows the frame sampled through it; estimation only follows
\* tracking.
C21_CompositorAfterAccumulation ==
    /\ CallIsOfThisFrame
          => \A T \in {TransformOfThisFrame} :
                /\ rigid_transform = T
                /\ pc \in AfterWarp => warped = SampledThrough(frame, T)
    /\ call.estimated => (call.tracked /\ ~FrameReset)

\* a frame warped with its own increment, where the transform before the
\* frame would have given another raster
C21_Witness ==
    /\ pc = "fill"
    /\ call.estimated
    /\ call.est # None
    /\ MatMul(call.cum0, Hom(call.est)) # call.cum0
    /\ warped = SampledThrough(frame, rigid_transform)
    /\ warped # SampledThrough(frame, call.cum0)

\* a reset found the previous raster present and left it absent; the frame
\* after a reset skipped tracking; both were composited with the identity
ResetThenSkip ==
    /\ (CallIsOfThisFrame /\ FrameReset)
          => /\ call.prev0 # None
             /\ prev_gray = None
             /\ reset_at = nread
    /\ (CallIsOfThisFrame /\ reset_at >= 1 /\ nread = reset_at + 1)
          => /\ call.prev0 = None
             /\ ~call.tracked
    /\ (CallIsOfThisFrame /\ reset_at >= 1 /\ nread \in {reset_at, reset_at + 1})
          => /\ rigid_transform = Eye3
             /\ pc \in AfterWarp => warped = frame

\* the call on the frame after a reset: it does not reset
NoResetRightAfterReset ==
    (pc = "process" /\ reset_at >= 1 /\ reset_at = nread - 1)
        => /\ reset_at' = reset_at
           /\ prev_gray' # None
           /\ rigid_transform' = Eye3

\* C22: two consecutive frames never both reset: a reset needs the previous
\* raster and leaves it absent, so the next frame skips tracking; the frame
\* that resets and the frame after it are composited with the identity.
C22_NoTwoResetsInARow == [][NoResetRightAfterReset]_vars /\ []ResetThenSkip

\* the frame after a reset, warped with the identity
C22_Witness ==
    /\ pc = "fill"
    /\ reset_at = 2
    /\ nread = 3
    /\ ~call.tracked
    /\ call.mid # <<>>
    /\ rigid_transform = Eye3
    /\ warped = frame

\* C23: whenever the previous raster is absent, the Landmark Set is empty and
\* the cumulative transform is the identity.
C23_AbsentRasterMeansInitial ==
    prev_gray = None => (tracked_features = <<>> /\ rigid_transform = Eye3)

\* a reset has just thrown away landmarks and accumulated motion
C23_Witness ==
    /\ pc = "invert"
    /\ FrameReset
    /\ prev_gray = None
    /\ call.mid # <<>>
    /\ call.cum0 # Eye3
    /\ tracked_features = <<>>
    /\ rigid_transform = Eye3

\* C24: tracking that does not reset on K >= 1 landmarks hands the estimator
\* at least 0.8 K, so at least one, correspondence and leaves as many
\* landmarks; a Landmark Set that was not empty is empty only after a reset.
C24_NeverEmptyAfterTracking ==
    /\ call.estimated
          => /\ PreCount >= 1
             /\ 5 * Len(call.new) >= 4 * PreCount
             /\ Len(call.new) >= 1
             /\ Len(call.old) = Len(call.new)
             /\ Len(tracked_features) = Len(call.new)
    /\ (call.ran /\ call.pre # <<>> /\ tracked_features = <<>>)
          => (call.tracked /\ ~call.estimated /\ prev_gray = None)

\* a single landmark was tracked, found valid and kept
C24_Witness ==
    /\ call.estimated
    /\ PreCount = 1
    /\ Len(call.old) = 1
    /\ Len(tracked_features) = 1
    /\ tracked_features # call.mid

\* process_image leaves the raster retained by main() alone
CallKeepsHistory == pc = "process" => last_valid_frame' = last_valid_frame

\* once a reset has happened, on the frame of the reset and on every later
\* one, the raster retained is still the previous frame's output, and
\* every hole of the warped frame is filled from it
FilledAcrossReset ==
    /\ (pc \in {"invert", "fill"} /\ reset_at >= 1)
          => /\ last_valid_frame # None
             /\ last_valid_frame = out_without_points[nread - 1]
    /\ (pc = "store" /\ reset_at >= 1)
          => \A p \in Pix :
                warped[p] = Black => stabilized_frame[p] = out_without_points[nread - 1][p]

\* C25: a tracker reset does not clear the stabilised output retained for
\* hole-fill: on the frame that resets and on later frames the holes are still
\* filled from the output of the frame before.
C25_ResetKeepsHistory == [][CallKeepsHistory]_vars /\ []FilledAcrossReset

\* on the frame that reset, a hole was filled from the output written before the reset
C25_Witness ==
    /\ pc = "store"
    /\ reset_at = nread
    /\ \E p \in Pix :
          /\ warped[p] = Black
          /\ stabilized_frame[p] # Black
          /\ stabilized_frame[p] = out_without_points[nread - 1][p]

\* C26: the tracking stage of frame N works from the gray raster of frame
\* N-1: a previous raster, when there is one, is that of the frame processed
\* last.
C26_FlowAgainstPreviousFrame ==
    /\ (CallIsOfThisFrame /\ call.tracked)
          => /\ nread >= 2
             /\ prev_frame # None
             /\ call.prev0 = CvtGray(prev_frame)
    /\ (pc = "process" /\ prev_gray # None)
          => /\ prev_frame # None
             /\ prev_gray = CvtGray(prev_frame)

\* the third frame was tracked against the second, which differs from it
C26_Witness ==
    /\ CallIsOfThisFrame
    /\ nread = 3
    /\ call.tracked
    /\ call.prev0 = CvtGray(prev_frame)
    /\ call.prev0 # call.gray

====
